---- MODULE Spec2Model ----
(***************************************************************************)
(* Crossword generator (AI/Lecture-3/Crossword/generate.py): the domain    *)
(* store, node consistency, AC-3 and backtracking search of                *)
(* CrosswordCreator, run on small puzzle models.                           *)
(*                                                                         *)
(* A word is a sequence of letters; Python's 0-based index k of a word is  *)
(* position k + 1 of the sequence.                                         *)
(***************************************************************************)
EXTENDS FiniteSets, Integers, Sequences, TLC

VARIABLES
    crossword,   \* self.crossword: [variables, words]
    domains,     \* self.domains: variable -> set of words
    pc,          \* position of the caller / of solve()
    ncRuns,      \* completed runs of enforce_node_consistency
    arcs,        \* the list `arcs` of the running ac3 call
    ac3Scoped,   \* the running / last ac3 call was given an arcs argument
    ac3Pre,      \* self.domains when the running / last ac3 call started
    ac3Ret,      \* return value of the last ac3 call: "none", "True", "False"
    revised,     \* the last revise call: <<>> or <<[x, y, pre, ret]>>
    assignment,  \* the dict `assignment` shared by all backtrack calls
    stack,       \* active backtrack calls that selected a variable: the
                 \* variable, the iterator of line 295 (values yielded, set
                 \* size at creation), the domains at the last line 298
                 \* and the assignment the call was entered with
    btRet,       \* value a backtrack call just returned: "assignment", "None"
    result,      \* what solve() returned: "pending", "assignment", "None"
    board        \* the tic-tac-toe board of tictactoe.py

vars == <<crossword, domains, pc, ncRuns, arcs, ac3Scoped, ac3Pre,
          ac3Ret, revised, assignment, stack, btRet, result, board>>

----------------------------------------------------------------------------
(* Bounds *)

\* largest vocabulary (number of words in crossword.words)
MaxVocab == 3

\* how many times the caller runs enforce_node_consistency
MaxNodeRuns == 2

----------------------------------------------------------------------------
(* The puzzle model (crossword.py: Variable, Crossword) *)

ACROSS == "across"
DOWN == "down"

Variable(i, j, direction, length) ==
    [i |-> i, j |-> j, direction |-> direction, length |-> length]

\* Variable.cells: the k-th cell (k = 0 .. length - 1) of a variable
Cell(v, k) ==
    <<v.i + (IF v.direction = DOWN THEN k ELSE 0),
      v.j + (IF v.direction = ACROSS THEN k ELSE 0)>>

Cells(v) == {Cell(v, k) : k \in 0 .. v.length - 1}

\* Crossword.overlaps[v1, v2]: <<index in v1, index in v2>> of the shared
\* cell, or <<>> (None) when the two variables share no cell
Overlap(v1, v2) ==
    LET shared == {p \in (0 .. v1.length - 1) \X (0 .. v2.length - 1) :
                      Cell(v1, p[1]) = Cell(v2, p[2])}
    IN  IF v1 = v2 \/ shared = {} THEN <<>> ELSE CHOOSE p \in shared : TRUE

\* Crossword.neighbors(var)
Neighbors(cw, var) ==
    {v \in cw.variables : v # var /\ Overlap(v, var) # <<>>}

\* The grids ('_' open, '#' blocked) and the variables they contain.
\*   Single:  ___
SingleVars == {Variable(0, 0, ACROSS, 3)}
\*   Cross:   _#
\*            __
CrossVars == {Variable(1, 0, ACROSS, 2), Variable(0, 0, DOWN, 2)}
\*   Plus:    #_#
\*            ___
\*            #_#
PlusVars == {Variable(1, 0, ACROSS, 3), Variable(0, 1, DOWN, 3)}
\*   H:       _#_
\*            ___
\*            _#_
HVars == {Variable(0, 0, DOWN, 3), Variable(1, 0, ACROSS, 3),
          Variable(0, 2, DOWN, 3)}
\*   Apart:   __#
\*            ###
\*            ___
ApartVars == {Variable(0, 0, ACROSS, 2), Variable(2, 0, ACROSS, 3)}
\*   Pair:    ___
\*            ###
\*            ___
PairVars == {Variable(0, 0, ACROSS, 3), Variable(2, 0, ACROSS, 3)}
\*   Square:  __
\*            __
SquareVars == {Variable(0, 0, ACROSS, 2), Variable(1, 0, ACROSS, 2),
               Variable(0, 0, DOWN, 2), Variable(0, 1, DOWN, 2)}

\*   Ring:    __#
\*            __#
\*            ###
\*            ___
RingVars == SquareVars \cup {Variable(3, 0, ACROSS, 3)}

Puzzles == {SingleVars, CrossVars, PlusVars, HVars, ApartVars, PairVars,
            SquareVars}

\* The words a vocabulary file may hold
Pool == { <<"B", "C">>, <<"B", "A">>, <<"C", "A">>,
          <<"A", "B", "C">>, <<"C", "B", "A">>, <<"B", "A", "A">> }

Vocabularies == {ws \in SUBSET Pool : Cardinality(ws) <= MaxVocab}

----------------------------------------------------------------------------
(* Helpers *)

\* all orders in which a (hash) set may be iterated
Perms(S) ==
    {s \in [1 .. Cardinality(S) -> S] :
        \A a, b \in 1 .. Cardinality(S) : a # b => s[a] # s[b]}

RECURSIVE Flatten(_)
Flatten(ss) == IF ss = <<>> THEN <<>> ELSE Head(ss) \o Flatten(Tail(ss))

\* the empty dict
EmptyDict == [v \in {} |-> <<>>]

----------------------------------------------------------------------------
(* tictactoe.py *)

X == "X"
O == "O"
EMPTY == "None"

initial_state == [i \in 0 .. 2 |-> [j \in 0 .. 2 |-> EMPTY]]

\* the number of cells of the board b that hold mark
Count(b, mark) ==
    Cardinality({c \in (0 .. 2) \X (0 .. 2) : b[c[1]][c[2]] = mark})

player(b) == IF Count(b, X) > Count(b, O) THEN O ELSE X

actions(b) == {c \in (0 .. 2) \X (0 .. 2) : b[c[1]][c[2]] = EMPTY}

Result(b, action) ==
    [b EXCEPT ![action[1]][action[2]] = player(b)]

\* the lines winner tests, in the order it tests them: the rows, the
\* columns, the two diagonals
Lines ==
    << <<<<0, 0>>, <<0, 1>>, <<0, 2>>>>,
       <<<<1, 0>>, <<1, 1>>, <<1, 2>>>>,
       <<<<2, 0>>, <<2, 1>>, <<2, 2>>>>,
       <<<<0, 0>>, <<1, 0>>, <<2, 0>>>>,
       <<<<0, 1>>, <<1, 1>>, <<2, 1>>>>,
       <<<<0, 2>>, <<1, 2>>, <<2, 2>>>>,
       <<<<0, 0>>, <<1, 1>>, <<2, 2>>>>,
       <<<<0, 2>>, <<1, 1>>, <<2, 0>>>> >>

\* all(element == line[0] for element in line)
Uniform(b, line) ==
    \A k \in 1 .. 3 : b[line[k][1]][line[k][2]] = b[line[1][1]][line[1][2]]

\* winner returns the first cell of the first line whose cells are all
\* equal, be they X, O or EMPTY
winner(b) ==
    LET hits == {n \in 1 .. Len(Lines) : Uniform(b, Lines[n])}
    IN  IF hits = {}
        THEN EMPTY
        ELSE LET first == CHOOSE n \in hits : \A m \in hits : n <= m
             IN  b[Lines[first][1][1]][Lines[first][1][2]]

terminal(b) ==
    \/ winner(b) # EMPTY
    \/ actions(b) = {}

----------------------------------------------------------------------------
(* CrosswordCreator.__init__ *)

\* self.domains = {var: self.crossword.words.copy() for var in variables}
FreshDomains(cw) == [var \in cw.variables |-> cw.words]

Init ==
    /\ \E vs \in Puzzles, ws \in Vocabularies :
          crossword = [variables |-> vs, words |-> ws]
    /\ domains = FreshDomains(crossword)
    /\ pc = "start"
    /\ ncRuns = 0
    /\ arcs = <<>>
    /\ ac3Scoped = FALSE
    /\ ac3Pre = domains
    /\ ac3Ret = "none"
    /\ revised = <<>>
    /\ assignment = EmptyDict
    /\ stack = <<>>
    /\ btRet = "none"
    /\ result = "pending"
    /\ board = initial_state

\* some variable's length is the length of no vocabulary word
UnmatchedLength(cw) ==
    \E var \in cw.variables : \A word \in cw.words : Len(word) # var.length

\* The creator of a Ring puzzle whose vocabulary leaves a slot without words
InitRing ==
    /\ \E ws \in Vocabularies :
          crossword = [variables |-> RingVars, words |-> ws]
    /\ UnmatchedLength(crossword)
    /\ domains = FreshDomains(crossword)
    /\ pc = "start"
    /\ ncRuns = 0
    /\ arcs = <<>>
    /\ ac3Scoped = FALSE
    /\ ac3Pre = domains
    /\ ac3Ret = "none"
    /\ revised = <<>>
    /\ assignment = EmptyDict
    /\ stack = <<>>
    /\ btRet = "none"
    /\ result = "pending"
    /\ board = initial_state

----------------------------------------------------------------------------
(* enforce_node_consistency *)

\* line 107 as its comment words it: only a longer word is removed
NodeTooLong(var, word) == Len(word) > var.length

\* the test of line 107: the word is removed from the variable's domain
NodeInconsistent(var, word) == Len(word) # var.length

\* the (var, word) pairs on which line 108 runs
NodeRemovals(cw) ==
    {p \in cw.variables \X cw.words : NodeInconsistent(p[1], p[2])}

\* set.remove raises KeyError when the word is not in the domain
NodeKeyErrors(cw, doms) ==
    {p \in NodeRemovals(cw) : p[2] \notin doms[p[1]]}

\* the domains when every removal of the two loops has been made
NodeConsistentDomains(cw, doms) ==
    [var \in cw.variables |->
        {word \in doms[var] : <<var, word>> \notin NodeRemovals(cw)}]

\* One call of enforce_node_consistency: the first by solve() (line 92), a
\* further one by a caller that runs the pass again.  When a removal raises
\* KeyError the call is abandoned with the removals made so far.
EnforceNodeConsistency ==
    /\ pc \in {"start", "nc_done"}
    /\ ncRuns < MaxNodeRuns
    /\ IF NodeKeyErrors(crossword, domains) = {}
       THEN /\ domains' = NodeConsistentDomains(crossword, domains)
            /\ pc' = "nc_done"
            /\ ncRuns' = ncRuns + 1
       ELSE /\ domains' \in
                 {d \in [crossword.variables -> SUBSET crossword.words] :
                     \A var \in crossword.variables :
                        /\ d[var] \subseteq domains[var]
                        /\ NodeConsistentDomains(crossword, domains)[var]
                              \subseteq d[var]}
            /\ pc' = "KeyError"
            /\ UNCHANGED ncRuns
    /\ UNCHANGED <<board, crossword, arcs, ac3Scoped, ac3Pre, ac3Ret,
                   revised, assignment, stack, btRet, result>>

----------------------------------------------------------------------------
(* revise *)

\* the words collected in out_ruled by the loop of lines 129-134
OutRuled(doms, x, y) ==
    LET cell_x == Overlap(x, y)[1]
        cell_y == Overlap(x, y)[2]
    IN  {word_y \in doms[y] :
            ~ \E word_x \in doms[x] :
                 word_y[cell_y + 1] = word_x[cell_x + 1]}

\* revise with line 136 toggling the words (^=) instead of removing them
ReviseToggle(cw, doms, x, y) ==
    IF y \in Neighbors(cw, x)
    THEN [domains |-> [doms EXCEPT ![x] = (@ \ OutRuled(doms, x, y))
                                   \cup (OutRuled(doms, x, y) \ @)],
          revised |-> OutRuled(doms, x, y) # {}]
    ELSE [domains |-> doms, revised |-> FALSE]

\* revise(x, y): the domains it leaves and the value it returns
Revise(cw, doms, x, y) ==
    IF y \in Neighbors(cw, x)
    THEN [domains |-> [doms EXCEPT ![x] = @ \ OutRuled(doms, x, y)],
          revised |-> OutRuled(doms, x, y) # {}]
    ELSE [domains |-> doms, revised |-> FALSE]

----------------------------------------------------------------------------
(* ac3 *)

\* lines 151-159: every ordered pair of distinct variables, when the dict
\* self.domains yields its keys in the order ord
AllArcs(ord) ==
    Flatten([a \in 1 .. Len(ord) |->
               SelectSeq([b \in 1 .. Len(ord) |-> <<ord[a], ord[b]>>],
                         LAMBDA arc : arc[1] # arc[2])])

\* line 149: `if not arcs` is true for None and for the empty list; the
\* key order of the dict is the order in which the set crossword.variables
\* was iterated, which depends on the hash seed
InitialArcs(doms, given) ==
    IF given = <<>>
    THEN {AllArcs(ord) : ord \in Perms(DOMAIN doms)}
    ELSE {given}

\* solve() line 93: self.ac3()
Ac3Global ==
    /\ pc = "nc_done"
    /\ arcs' \in InitialArcs(domains, <<>>)
    /\ ac3Scoped' = FALSE
    /\ ac3Pre' = domains
    /\ ac3Ret' = "none"
    /\ pc' = "ac3"
    /\ UNCHANGED <<board, crossword, domains, ncRuns, revised, assignment,
                   stack, btRet, result>>

\* One iteration of `while arcs` (lines 161-175): pop the last arc, revise
\* it, return False on an emptied domain, else append the arcs (Z, x).
Ac3Step ==
    /\ pc = "ac3"
    /\ arcs # <<>>
    /\ LET x == arcs[Len(arcs)][1]
           y == arcs[Len(arcs)][2]
           rest == SubSeq(arcs, 1, Len(arcs) - 1)
           r == Revise(crossword, domains, x, y)
       IN  /\ domains' = r.domains
           /\ revised' = <<[x |-> x, y |-> y, pre |-> domains,
                            ret |-> r.revised]>>
           /\ IF r.revised /\ r.domains[x] = {}
              THEN /\ arcs' = rest
                   /\ ac3Ret' = "False"
                   /\ pc' = "ac3_ret"
              ELSE /\ \E zs \in Perms(IF r.revised
                                      THEN Neighbors(crossword, x) \ {y}
                                      ELSE {}) :
                         arcs' = rest \o [k \in 1 .. Len(zs) |-> <<zs[k], x>>]
                   /\ UNCHANGED <<ac3Ret, pc>>
    /\ UNCHANGED <<board, crossword, ncRuns, ac3Scoped, ac3Pre, assignment,
                   stack, btRet, result>>

\* the queue is empty: line 177, return True
Ac3Drained ==
    /\ pc = "ac3"
    /\ arcs = <<>>
    /\ ac3Ret' = "True"
    /\ pc' = "ac3_ret"
    /\ UNCHANGED <<board, crossword, domains, ncRuns, arcs, ac3Scoped,
                   ac3Pre, revised, assignment, stack, btRet, result>>

----------------------------------------------------------------------------
(* assignment_complete, consistent, select_unassigned_variable *)

AssignmentComplete(doms, asg) ==
    \A var \in DOMAIN doms : var \in DOMAIN asg

\* lines 198-202 comparing the first letters of the words only
AllDistinctInitial(asg) ==
    Cardinality({asg[v][1] : v \in DOMAIN asg}) = Cardinality(DOMAIN asg)

\* lines 198-202: a word used by two variables
AllDistinct(asg) ==
    Cardinality({asg[v] : v \in DOMAIN asg}) = Cardinality(DOMAIN asg)

\* consistent without the overlap test of lines 210-219
ConsistentNoOverlap(cw, asg) ==
    /\ AllDistinct(asg)
    /\ \A word1 \in DOMAIN asg : Len(asg[word1]) = word1.length

\* lines 204-219: the length of every assigned word and the overlap of every
\* assigned pair of neighbors
Consistent(cw, asg) ==
    /\ AllDistinct(asg)
    /\ \A word1 \in DOMAIN asg :
          /\ Len(asg[word1]) = word1.length
          /\ \A word2 \in Neighbors(cw, word1) :
                word2 \in DOMAIN asg =>
                   asg[word1][Overlap(word1, word2)[1] + 1]
                      = asg[word2][Overlap(word1, word2)[2] + 1]

\* the sort key of line 276 without the minus sign: fewest neighbors first
SelectKeyFewest(cw, doms, a, b) ==
    \/ Cardinality(doms[a]) < Cardinality(doms[b])
    \/ /\ Cardinality(doms[a]) = Cardinality(doms[b])
       /\ Cardinality(Neighbors(cw, a)) < Cardinality(Neighbors(cw, b))

\* the sort key of line 276
SelectKeyLess(cw, doms, a, b) ==
    \/ Cardinality(doms[a]) < Cardinality(doms[b])
    \/ /\ Cardinality(doms[a]) = Cardinality(doms[b])
       /\ Cardinality(Neighbors(cw, a)) > Cardinality(Neighbors(cw, b))

\* the variables sorted(...)[0] may be: sorted is stable, so a tie goes to
\* whichever tied variable the set `unassigned` yields first
SelectUnassignedVariable(cw, doms, asg) ==
    LET unassigned == DOMAIN doms \ DOMAIN asg
    IN  {var \in unassigned :
            \A other \in unassigned : ~ SelectKeyLess(cw, doms, other, var)}

----------------------------------------------------------------------------
(* backtrack *)

\* assignment[var] = value
Assign(asg, var, value) ==
    [v \in DOMAIN asg \cup {var} |-> IF v = var THEN value ELSE asg[v]]

\* line 311 left out: the assignment keeps the value
UnassignSkipped(asg, var) == asg

\* del assignment[var]
Unassign(asg, var) == [v \in DOMAIN asg \ {var} |-> asg[v]]

\* the argument of line 303, in any order the neighbor set may be iterated
ScopedArcs(cw, var) ==
    {[k \in 1 .. Len(zs) |-> <<zs[k], var>>] : zs \in Perms(Neighbors(cw, var))}

\* A call of backtrack (line 94 of solve, or the recursive call of line 304)
\* up to the creation of the iterator of line 295.
Backtrack ==
    /\ pc = "ac3_ret"
    /\ IF AssignmentComplete(domains, assignment)
       THEN /\ btRet' = "assignment"
            /\ pc' = "bt_return"
            /\ UNCHANGED stack
       ELSE /\ \E var \in SelectUnassignedVariable(crossword, domains,
                                                   assignment) :
                  stack' = Append(stack,
                                  [var |-> var, yielded |-> {},
                                   used |-> Cardinality(domains[var]),
                                   pre |-> domains,
                                   entry |-> assignment])
            /\ pc' = "bt_iter"
            /\ UNCHANGED btRet
    /\ UNCHANGED <<board, crossword, domains, ncRuns, arcs, ac3Scoped,
                   ac3Pre, ac3Ret, revised, assignment, result>>

\* One turn of the loop of line 295 in the innermost call: the set iterator
\* raises RuntimeError when the set changed size, else it ends the loop
\* (line 313) or yields a value that is assigned (line 298), checked
\* (line 301) and either propagated (line 303) or undone (line 311).
BacktrackTry ==
    /\ pc = "bt_iter"
    /\ LET f == stack[Len(stack)]
           below == SubSeq(stack, 1, Len(stack) - 1)
       IN  IF Cardinality(domains[f.var]) # f.used
           THEN /\ pc' = "RuntimeError"
                /\ UNCHANGED <<stack, btRet, assignment, arcs, ac3Scoped,
                               ac3Pre, ac3Ret>>
           ELSE IF domains[f.var] \ f.yielded = {}
           THEN /\ stack' = below
                /\ btRet' = "None"
                /\ pc' = "bt_return"
                /\ UNCHANGED <<assignment, arcs, ac3Scoped, ac3Pre, ac3Ret>>
           ELSE \E value \in domains[f.var] \ f.yielded :
                /\ stack' = Append(below,
                                   [f EXCEPT !.yielded = @ \cup {value},
                                             !.pre = domains])
                /\ UNCHANGED btRet
                /\ IF Consistent(crossword, Assign(assignment, f.var, value))
                   THEN /\ assignment' = Assign(assignment, f.var, value)
                        /\ \E given \in ScopedArcs(crossword, f.var) :
                              arcs' \in InitialArcs(domains, given)
                        /\ ac3Scoped' = TRUE
                        /\ ac3Pre' = domains
                        /\ ac3Ret' = "none"
                        /\ pc' = "ac3"
                   ELSE /\ assignment' =
                              Unassign(Assign(assignment, f.var, value), f.var)
                        /\ UNCHANGED <<arcs, ac3Scoped, ac3Pre, ac3Ret, pc>>
    /\ UNCHANGED <<board, crossword, domains, ncRuns, revised, result>>

\* A backtrack call returned: to solve(), which returns the value, or to
\* line 304 of the calling backtrack, which returns a result (lines 307-308)
\* or undoes its assignment (line 311).
BacktrackReturn ==
    /\ pc = "bt_return"
    /\ IF stack = <<>>
       THEN /\ result' = btRet
            /\ pc' = "done"
            /\ UNCHANGED <<stack, assignment>>
       ELSE IF btRet = "assignment"
       THEN /\ stack' = SubSeq(stack, 1, Len(stack) - 1)
            /\ UNCHANGED <<pc, assignment, result>>
       ELSE /\ assignment' = Unassign(assignment, stack[Len(stack)].var)
            /\ pc' = "bt_iter"
            /\ UNCHANGED <<stack, result>>
    /\ UNCHANGED <<board, crossword, domains, ncRuns, arcs, ac3Scoped,
                   ac3Pre, ac3Ret, revised, btRet>>

----------------------------------------------------------------------------
Next ==
    \/ EnforceNodeConsistency
    \/ Ac3Global
    \/ Ac3Step
    \/ Ac3Drained
    \/ Backtrack
    \/ BacktrackTry
    \/ BacktrackReturn

Spec == Init /\ [][Next]_vars

\* The program is one thread that runs every call to its end.
FairSpec == Spec /\ WF_vars(Next)

\* solve() on the Ring puzzles with an unmatched slot
FairSpecRing == InitRing /\ [][Next]_vars /\ WF_vars(Next)

TypeOK ==
    /\ crossword.variables \in Puzzles
    /\ crossword.words \in Vocabularies
    /\ domains \in [crossword.variables -> SUBSET crossword.words]
    /\ pc \in {"start", "nc_done", "ac3", "ac3_ret", "bt_iter", "bt_return",
               "done", "KeyError", "RuntimeError"}
    /\ ncRuns \in 0 .. MaxNodeRuns
    /\ ac3Ret \in {"none", "True", "False"}
    /\ btRet \in {"none", "assignment", "None"}
    /\ result \in {"pending", "assignment", "None"}
    /\ DOMAIN assignment \subseteq crossword.variables

\* A game of tic-tac-toe: no crossword is being solved
InitTTT ==
    /\ board = initial_state
    /\ crossword = [variables |-> {}, words |-> {}]
    /\ domains = FreshDomains(crossword)
    /\ pc = "start"
    /\ ncRuns = 0
    /\ arcs = <<>>
    /\ ac3Scoped = FALSE
    /\ ac3Pre = domains
    /\ ac3Ret = "none"
    /\ revised = <<>>
    /\ assignment = EmptyDict
    /\ stack = <<>>
    /\ btRet = "none"
    /\ result = "pending"

\* board = result(board, action) for a legal move of the player to move
Move ==
    /\ \E action \in actions(board) : board' = Result(board, action)
    /\ UNCHANGED <<crossword, domains, pc, ncRuns, arcs, ac3Scoped, ac3Pre,
                   ac3Ret, revised, assignment, stack, btRet, result>>

NextTTT == Move

SpecTTT == InitTTT /\ [][NextTTT]_vars

----------------------------------------------------------------------------
(* Properties *)

\* the overlap constraint between the words of two neighbors
Agree(v1, w1, v2, w2) ==
    w1[Overlap(v1, v2)[1] + 1] = w2[Overlap(v1, v2)[2] + 1]

\* a is a valid total assignment of the puzzle cw
ValidTotal(cw, a) ==
    /\ DOMAIN a = cw.variables
    /\ \A v \in cw.variables : a[v] \in cw.words /\ Len(a[v]) = v.length
    /\ \A v1, v2 \in cw.variables : v1 # v2 => a[v1] # a[v2]
    /\ \A v1 \in cw.variables : \A v2 \in Neighbors(cw, v1) :
          Agree(v1, a[v1], v2, a[v2])

\* some valid total assignment takes every word from the domains doms
Representable(cw, doms) ==
    \E a \in [cw.variables -> cw.words] :
       /\ ValidTotal(cw, a)
       /\ \A v \in cw.variables : a[v] \in doms[v]

\* every word of every domain has a partner in each neighbor's domain
ArcConsistent(cw, doms) ==
    \A x \in cw.variables : \A y \in Neighbors(cw, x) :
       \A wx \in doms[x] : \E wy \in doms[y] : Agree(x, wx, y, wy)

\* the words of the vocabulary that have the length of var
WordsOfLength(cw, var) == {w \in cw.words : Len(w) = var.length}

\* C1: an assignment returned by solve() gives every variable a vocabulary
\* word of the variable's length, no word twice, and neighbors agree on the
\* shared cell.
C1_SolveReturnsValid ==
    result = "assignment" => ValidTotal(crossword, assignment)

C1_Witness ==
    /\ result = "assignment"
    /\ \E v \in crossword.variables : Neighbors(crossword, v) # {}

\* C2: when the vocabulary admits a valid total assignment, solve() does
\* not return the no-solution marker.
C2_SolveComplete ==
    (result = "None") =>
       ~ Representable(crossword, FreshDomains(crossword))

\* C3: when ac3 returns, the domains still hold a valid total assignment if
\* they held one when the call started.
C3_Ac3KeepsSolution ==
    (pc = "ac3_ret" /\ Representable(crossword, ac3Pre)) =>
       Representable(crossword, domains)

\* C4: every ac3 call returns.
C4_Ac3Terminates == (pc = "ac3") ~> (pc # "ac3")

\* C5: revise(x, y) on neighbors leaves in domain(x) exactly the words that
\* have a partner in domain(y), and leaves every other domain alone.
C5_ReviseExact ==
    (revised # <<>> /\ revised[1].y \in Neighbors(crossword, revised[1].x)) =>
       LET x == revised[1].x
           y == revised[1].y
           pre == revised[1].pre
       IN  /\ domains[x] = {wx \in pre[x] :
                              \E wy \in pre[y] : Agree(x, wx, y, wy)}
           /\ \A v \in crossword.variables \ {x} : domains[v] = pre[v]

\* C6: after a successful global ac3() the domains are arc consistent.
C6_GlobalAc3ArcConsistent ==
    (pc = "ac3_ret" /\ ~ ac3Scoped /\ ac3Ret = "True") =>
       ArcConsistent(crossword, domains)

\* C7: during and after an ac3 call every domain is a subset of what it was
\* when the call started.
C7_Ac3Monotone ==
    pc \in {"ac3", "ac3_ret"} =>
       \A v \in crossword.variables : domains[v] \subseteq ac3Pre[v]

C7_Witness ==
    /\ pc = "ac3_ret"
    /\ \E v \in crossword.variables :
          domains[v] # ac3Pre[v] /\ domains[v] # {}

\* C8: ac3 returns True exactly when no domain is empty at its return.
C8_Ac3TrueIffNoEmptyDomain ==
    pc = "ac3_ret" =>
       (ac3Ret = "True" <=> \A v \in crossword.variables : domains[v] # {})

\* C9: after the first run of enforce_node_consistency every domain is the
\* set of vocabulary words of the variable's length.
C9_NodeConsistencyExact ==
    (pc = "nc_done" /\ ncRuns = 1) =>
       \A v \in crossword.variables :
          domains[v] = WordsOfLength(crossword, v)

C9_Witness ==
    /\ pc = "nc_done"
    /\ ncRuns = 1
    /\ \E v1, v2 \in crossword.variables :
          /\ domains[v1] # {}
          /\ domains[v2] # {}
          /\ \E w \in crossword.words \ domains[v1] : Len(w) < v1.length
          /\ \E w \in crossword.words \ domains[v2] : Len(w) > v2.length

\* C10: a second run of enforce_node_consistency completes and leaves the
\* domains of the first run.
C10_NodeConsistencyIdempotent ==
    /\ pc # "KeyError"
    /\ (pc = "nc_done" /\ ncRuns = 2) =>
          \A v \in crossword.variables :
             domains[v] = WordsOfLength(crossword, v)

\* C11: solve() never aborts; in particular the domain of a variable whose
\* values an active backtrack call is iterating over does not change.
C11_SolveNeverAborts ==
    /\ pc # "RuntimeError"
    /\ \A k \in 1 .. Len(stack) :
          Cardinality(domains[stack[k].var]) = stack[k].used

\* C12: when some variable's length matches no vocabulary word, solve()
\* returns the no-solution marker, and backtrack is called once only (no
\* scoped ac3 and no recursive call is ever made).
C12_UnmatchedReturnsNone ==
    (UnmatchedLength(crossword) /\ pc = "ac3") ~>
       (pc = "done" /\ result = "None" /\ ~ ac3Scoped)

\* a puzzle of two slots that share no cell
TwoApart(cw) ==
    /\ Cardinality(cw.variables) = 2
    /\ \A v \in cw.variables : Neighbors(cw, v) = {}

\* a step of the loop of line 295 that assigns a value and checks it
TriesValue ==
    pc = "bt_iter" /\ Len(stack') = Len(stack) /\ stack' # stack

\* the value such a step assigns
TriedValues ==
    stack'[Len(stack)].yielded \ stack[Len(stack)].yielded

\* C13: in a puzzle of two non-overlapping slots every combination of
\* valid-length words is accepted by the consistency check of the search.
C13_ApartAnyCombination ==
    [][(TwoApart(crossword) /\ TriesValue) => pc' = "ac3"]_vars

\* C13 (amended): in a puzzle of two non-overlapping slots every
\* combination of two different valid-length words is accepted by the
\* consistency check of the search.
C13_ApartDistinctCombination ==
    [][(/\ TwoApart(crossword)
        /\ TriesValue
        /\ \A v \in DOMAIN assignment : assignment[v] \notin TriedValues)
          => pc' = "ac3"]_vars

C13_Witness ==
    /\ TwoApart(crossword)
    /\ pc = "ac3"
    /\ ac3Scoped
    /\ Cardinality(DOMAIN assignment) = 2
    /\ \A v1, v2 \in crossword.variables : v1.length = v2.length

\* mark holds all three cells of a row, a column or a diagonal of b
HasThree(b, mark) ==
    \E n \in 1 .. Len(Lines) :
       \A k \in 1 .. 3 : b[Lines[n][k][1]][Lines[n][k][2]] = mark

\* C14: on every board reached by alternating legal moves, winner returns
\* X (O) exactly when X (O) holds three cells in a line, and None otherwise.
C14_WinnerExact ==
    ~ (HasThree(board, X) /\ HasThree(board, O)) =>
       /\ winner(board) = X <=> HasThree(board, X)
       /\ winner(board) = O <=> HasThree(board, O)

\* C15: when backtrack undoes a tentative assignment after the recursion
\* failed, every domain is what it was just before that assignment was made.
C15_UndoRestoresDomains ==
    (pc = "bt_return" /\ stack # <<>> /\ btRet = "None") =>
       domains = stack[Len(stack)].pre

\* C16: when the scoped ac3 of line 303 returns False, backtrack makes no
\* recursive call: its next step undoes the tentative assignment and goes
\* on with the loop of line 295.
C16_NoRecursionAfterFailedAc3 ==
    [][(pc = "ac3_ret" /\ ac3Scoped /\ ac3Ret = "False") =>
          /\ pc' = "bt_iter"
          /\ stack' = stack
          /\ assignment' = Unassign(assignment, stack[Len(stack)].var)]_vars

\* C17: the ac3 call of line 303 starts with exactly the arc list it is
\* given, also when that list is empty (the assigned variable has no
\* neighbors).
C17_ScopedAc3StartsWithGivenArcs ==
    [][(pc = "bt_iter" /\ pc' = "ac3") =>
          arcs' \in ScopedArcs(crossword, stack[Len(stack)].var)]_vars

\* C18: revise(x, y) returns True exactly when it removed a word from
\* domain(x); for x and y that share no cell it returns False and changes
\* no domain.
C18_ReviseTrueIffRemoved ==
    revised # <<>> =>
       LET x == revised[1].x
           y == revised[1].y
           pre == revised[1].pre
       IN  /\ revised[1].ret <=> domains[x] # pre[x]
           /\ y \notin Neighbors(crossword, x) =>
                 (~ revised[1].ret /\ domains = pre)

\* a backtrack call has just selected its variable (no value tried yet)
JustSelected ==
    pc = "bt_iter" /\ stack[Len(stack)].yielded = {}

\* C19: the variable select_unassigned_variable returns is unassigned, no
\* unassigned variable has a smaller domain, and among the unassigned
\* variables of that domain size none has more neighbors.
C19_SelectMinDomainMaxDegree ==
    JustSelected =>
       LET var == stack[Len(stack)].var
           unassigned == crossword.variables \ DOMAIN assignment
       IN  /\ var \in unassigned
           /\ \A other \in unassigned :
                 /\ Cardinality(domains[var]) <= Cardinality(domains[other])
                 /\ Cardinality(domains[var]) = Cardinality(domains[other])
                       => Cardinality(Neighbors(crossword, var))
                             >= Cardinality(Neighbors(crossword, other))

C19_Witness ==
    /\ JustSelected
    /\ \E o1, o2 \in crossword.variables \ DOMAIN assignment :
          /\ Cardinality(domains[o1]) > Cardinality(domains[stack[Len(stack)].var])
          /\ Cardinality(domains[o2]) = Cardinality(domains[stack[Len(stack)].var])
          /\ Cardinality(Neighbors(crossword, o2))
                < Cardinality(Neighbors(crossword, stack[Len(stack)].var))

\* the number of values in the domains of var's unassigned neighbors that
\* value rules out through an overlap mismatch
RuledOut(cw, doms, asg, var, value) ==
    Cardinality({p \in (Neighbors(cw, var) \ DOMAIN asg) \X cw.words :
                    /\ p[2] \in doms[p[1]]
                    /\ ~ Agree(var, value, p[1], p[2])})

\* C20: backtrack tries the values of the selected variable in
\* least-constraining-value order; in particular the first value it tries
\* rules out no more neighbor values than any other value of the domain.
C20_TriesLeastConstrainingFirst ==
    [][(TriesValue /\ stack[Len(stack)].yielded = {}) =>
          LET var == stack[Len(stack)].var
          IN  \A value \in TriedValues : \A other \in domains[var] :
                 RuledOut(crossword, domains, assignment, var, value)
                    <= RuledOut(crossword, domains, assignment, var, other)]_vars

\* the words of the partial assignment asg are pairwise distinct, have
\* their variables' lengths and agree on the shared cell of assigned neighbors
PartialValid(cw, asg) ==
    /\ \A v1, v2 \in DOMAIN asg : v1 # v2 => asg[v1] # asg[v2]
    /\ \A v \in DOMAIN asg : Len(asg[v]) = v.length
    /\ \A v1 \in DOMAIN asg : \A v2 \in Neighbors(cw, v1) \cap DOMAIN asg :
          Agree(v1, asg[v1], v2, asg[v2])

\* C21: at the entry of every backtrack call the partial assignment has
\* pairwise distinct words of the right lengths, and assigned neighbors
\* agree on their shared cell.
C21_EntryAssignmentConsistent ==
    pc = "ac3_ret" => PartialValid(crossword, assignment)

C21_Witness ==
    /\ pc = "ac3_ret"
    /\ ac3Scoped
    /\ \E v1 \in DOMAIN assignment :
          Neighbors(crossword, v1) \cap DOMAIN assignment # {}

\* C22: when a backtrack call returns None (line 313), the assignment is
\* the mapping the call was entered with.
C22_NoneRestoresAssignment ==
    [][(pc = "bt_iter" /\ pc' = "bt_return" /\ btRet' = "None") =>
          assignment' = stack[Len(stack)].entry]_vars

\* a nested call has returned None, and the variable it had selected had
\* words to try (no unassigned variable has an empty domain)
C22_Witness ==
    /\ pc = "bt_return"
    /\ btRet = "None"
    /\ stack # <<>>
    /\ crossword.variables \ DOMAIN assignment # {}
    /\ \A v \in crossword.variables \ DOMAIN assignment : domains[v] # {}

====
